---------------------------- MODULE Spec2Model ----------------------------
(***************************************************************************)
(* Model of qjs-derive-support (src/qjs-derive-support/src/lib.rs): the    *)
(* `js` macro body (Item / Eval / Closure parsing and code generation) and *)
(* the `interpolate` token rewriter.                                       *)
(*                                                                         *)
(* A token stream is a sequence of token trees.  A token tree is a record  *)
(*   [kind, sym, spacing, delim, stream]                                   *)
(* kind \in {"Ident","Literal","Punct","Group"}; sym is the text of an     *)
(* identifier, literal or punctuation (a String); spacing is the Spacing   *)
(* of a Punct; delim and stream are the Delimiter and contents of a Group. *)
(* Fields a kind does not use hold "" or << >>.                            *)
(*                                                                         *)
(* Option<T> is a sequence of length 0 (None) or 1 (Some).                 *)
(* Result<T> is a record [ok, val, err]: err is << >> when ok.             *)
(* A String is a sequence of pieces of text, so that formatting and        *)
(* to_string are computed and not taken as the identity.                   *)
(***************************************************************************)
EXTENDS Integers, Sequences

VARIABLES
    input,   \* the TokenStream a call is given
    vars,    \* the Vec<Variable> interpolate is given by &mut
    pc,      \* "ready" before the call, "returned" after it
    item,    \* what Item::parse made of the input, inside js
    ret      \* the Result the call returned

v == <<input, vars, pc, item, ret>>

\* ------------------------------------------------------------------------
\* Bounds of the model
\* ------------------------------------------------------------------------

\* Largest number of token trees (groups and their contents counted) in an
\* input of interpolate.
MaxTokens == 4

\* Largest number of parameters in a parameter list given to js.
MaxParams == 2

\* Largest number of token trees in the body of an input of js.
MaxScript == 2

\* ------------------------------------------------------------------------
\* proc_macro2 token trees
\* ------------------------------------------------------------------------

Ident(s) == [kind |-> "Ident", sym |-> s, spacing |-> "", delim |-> "", stream |-> <<>>]

Literal(s) == [kind |-> "Literal", sym |-> s, spacing |-> "", delim |-> "", stream |-> <<>>]

Punct(c, sp) == [kind |-> "Punct", sym |-> c, spacing |-> sp, delim |-> "", stream |-> <<>>]

Group(d, s) == [kind |-> "Group", sym |-> <<>>, spacing |-> "", delim |-> d, stream |-> s]

None == <<>>

Some(x) == <<x>>

Ok(x) == [ok |-> TRUE, val |-> x, err |-> <<>>]

Err(e) == [ok |-> FALSE, val |-> <<>>, err |-> <<e>>]

\* ------------------------------------------------------------------------
\* syn::parse2::<Expr>, as far as the token alphabet of the model goes:
\*   expr    ::= attr* atom trailer*          and then the end of the stream
\*   attr    ::= `#` `[` path tokens... `]`
\*   atom    ::= Ident | Literal | `(` `)` | `(` expr `)` | `[` `]` | `[` expr `]`
\*   trailer ::= `(` `)` | `(` expr `)`  (call)   |   `[` expr `]`  (index)
\* ------------------------------------------------------------------------

RECURSIVE ExprOk(_)
RECURSIVE AttrsEnd(_, _)
RECURSIVE TrailersEnd(_, _)

\* Attribute::parse_outer from position i: the position after the outer
\* attributes, or 0 when a `#` is not followed by `[path ...]`.
AttrsEnd(s, i) ==
    IF i <= Len(s) /\ s[i].kind = "Punct" /\ s[i].sym = <<"#">>
    THEN IF /\ i + 1 <= Len(s)
            /\ s[i + 1].kind = "Group"
            /\ s[i + 1].delim = "Bracket"
            /\ Len(s[i + 1].stream) >= 1
            /\ s[i + 1].stream[1].kind = "Ident"
         THEN AttrsEnd(s, i + 2)
         ELSE 0
    ELSE i

AtomOk(t) ==
    \/ t.kind = "Ident"
    \/ t.kind = "Literal"
    \/ /\ t.kind = "Group"
       /\ t.delim \in {"Parenthesis", "Bracket"}
       /\ (t.stream = <<>> \/ ExprOk(t.stream))

\* The calls and indexings that follow an atom, from position i: the position
\* after them, or 0 when an argument list or an index is no expression.
TrailersEnd(s, i) ==
    IF i <= Len(s) /\ s[i].kind = "Group" /\ s[i].delim = "Parenthesis"
    THEN IF s[i].stream = <<>> \/ ExprOk(s[i].stream)
         THEN TrailersEnd(s, i + 1)
         ELSE 0
    ELSE IF i <= Len(s) /\ s[i].kind = "Group" /\ s[i].delim = "Bracket"
    THEN IF ExprOk(s[i].stream) THEN TrailersEnd(s, i + 1) ELSE 0
    ELSE i

ExprOk(s) ==
    LET a == AttrsEnd(s, 1)
    IN  /\ a # 0
        /\ a <= Len(s)
        /\ AtomOk(s[a])
        /\ TrailersEnd(s, a + 1) = Len(s) + 1

\* The syn::Error of a failed expression parse.
ExprError(s) == [msg |-> "expected expression", tokens |-> s]

\* syn::parse2::<Expr>(stream): the Expr is kept as the tokens it was parsed from.
ParseExpr(s) == IF ExprOk(s) THEN Ok(s) ELSE Err(ExprError(s))

\* ------------------------------------------------------------------------
\* enum Variable
\* ------------------------------------------------------------------------

VariableIdent(ident) == [var |-> "Ident", tokens |-> <<ident>>]

VariableExpr(expr) == [var |-> "Expr", tokens |-> expr]

\* ------------------------------------------------------------------------
\* interpolate
\* ------------------------------------------------------------------------

\* format!("{}", n) for the indices the model reaches.
Decimal(n) ==
    CASE n = 0 -> "0" [] n = 1 -> "1" [] n = 2 -> "2" [] n = 3 -> "3"
      [] n = 4 -> "4" [] n = 5 -> "5" [] n = 6 -> "6" [] n = 7 -> "7"
      [] n = 8 -> "8" [] n = 9 -> "9"

\* Ident::new(&format!("var{}", n), ..): the identifier is the pair of the
\* prefix and the formatted index.
VarName(n) == <<"var", Decimal(n)>>

\* quote! { __scope.#var } with var = var<n>
Placeholder(n) ==
    <<Ident(<<"__scope">>), Punct(<<".">>, "Alone"), Ident(VarName(n))>>

\* punct.as_char() == '#' && punct.spacing() == Spacing::Alone
IsMarker(token) ==
    token.kind = "Punct" /\ token.sym = <<"#">> /\ token.spacing = "Alone"

RECURSIVE interpolate(_, _)
RECURSIVE LoopFrom(_, _, _)

\* The state of one call's loop: the output built so far, the `interpolating`
\* option, the shared capture list, and the error of a `?` that returned.
LoopInit(vs) == [output |-> <<>>, interpolating |-> None, vars |-> vs, err |-> None]

\* arm 1: a standalone `#` arms the loop
ArmMarker(st, token) == [st EXCEPT !.interpolating = Some(token)]

\* arm 2: an identifier while armed
SpliceIdent(st, token) ==
    [st EXCEPT !.output = @ \o Placeholder(Len(st.vars)),
               !.vars = Append(@, VariableIdent(token))]

\* arm 3: a parenthesized group while armed
SpliceExpr(st, token) ==
    LET parsed == ParseExpr(token.stream)
    IN  IF parsed.ok
        THEN [st EXCEPT !.output = @ \o Placeholder(Len(st.vars)),
                        !.vars = Append(@, VariableExpr(parsed.val))]
        ELSE [st EXCEPT !.err = parsed.err]

\* Nested, were each nesting level given a capture list of its own.
NestedOwnList(st, token) ==
    LET inner == interpolate(token.stream, <<>>)
    IN  IF inner.ok
        THEN [st EXCEPT !.output = Append(@, Group(token.delim, inner.val)),
                        !.vars = @ \o inner.vars]
        ELSE [st EXCEPT !.err = inner.err, !.vars = @ \o inner.vars]

\* Nested, were the error of a nested call dropped and the group kept as it is.
NestedDropsError(st, token) ==
    LET inner == interpolate(token.stream, st.vars)
    IN  IF inner.ok
        THEN [st EXCEPT !.output = Append(@, Group(token.delim, inner.val)),
                        !.vars = inner.vars]
        ELSE [st EXCEPT !.output = Append(@, token)]

\* arm 4: any other group, armed or not
Nested(st, token) ==
    LET inner == interpolate(token.stream, st.vars)
    IN  IF inner.ok
        THEN [st EXCEPT !.output = Append(@, Group(token.delim, inner.val)),
                        !.vars = inner.vars]
        ELSE [st EXCEPT !.err = inner.err, !.vars = inner.vars]

\* arm 5: any other token
Verbatim(st, token) ==
    [st EXCEPT !.output = (@ \o st.interpolating) \o <<token>>,
               !.interpolating = None]

\* The body of `for token in input { match token { ... } }`
LoopBody(st, token) ==
    IF IsMarker(token)
    THEN ArmMarker(st, token)
    ELSE IF token.kind = "Ident" /\ st.interpolating # None
    THEN SpliceIdent(st, token)
    ELSE IF /\ token.kind = "Group"
            /\ st.interpolating # None
            /\ token.delim = "Parenthesis"
    THEN SpliceExpr(st, token)
    ELSE IF token.kind = "Group"
    THEN Nested(st, token)
    ELSE Verbatim(st, token)

\* The loop over the tokens i.. of s; a `?` that failed ends it.
LoopFrom(s, i, st) ==
    IF i > Len(s) \/ st.err # None
    THEN st
    ELSE LoopFrom(s, i + 1, LoopBody(st, s[i]))

\* The loop state after the whole of s.
LoopState(s, vs) == LoopFrom(s, 1, LoopInit(vs))

\* interpolate(input, vars): the Result and the capture list as the call leaves it.
interpolate(s, vs) ==
    LET st == LoopState(s, vs)
    IN  IF st.err = None
        THEN [ok |-> TRUE, val |-> st.output, err |-> None, vars |-> st.vars]
        ELSE [ok |-> FALSE, val |-> <<>>, err |-> st.err, vars |-> st.vars]

\* ------------------------------------------------------------------------
\* syn cursors: a parser reads the stream s from position i on
\* ------------------------------------------------------------------------

IsPunct(t, c) == t.kind = "Punct" /\ t.sym = <<c>>

\* input.peek of a two-character punctuation: the first character is Joint.
PeekPunct2(s, i, c1, c2) ==
    /\ i + 1 <= Len(s)
    /\ IsPunct(s[i], c1)
    /\ s[i].spacing = "Joint"
    /\ IsPunct(s[i + 1], c2)

\* input.peek(FatArrow) with the cursor at i
PeekFatArrow(s, i) == PeekPunct2(s, i, "=", ">")

\* input.peek(RArrow) with the cursor at i
PeekRArrow(s, i) == PeekPunct2(s, i, "-", ">")

\* input.peek(Paren), input.peek(Bracket), input.peek(Brace)
PeekGroup(s, i, d) == i <= Len(s) /\ s[i].kind = "Group" /\ s[i].delim = d

\* input.peek(syn::Ident)
PeekIdent(s, i) == i <= Len(s) /\ s[i].kind = "Ident"

\* syn::Type at i, as far as the model's inputs go (a path of one identifier,
\* or the unit type): the position after it, or 0.
TypeEnd(s, i) ==
    IF PeekIdent(s, i) \/ (PeekGroup(s, i, "Parenthesis") /\ s[i].stream = <<>>)
    THEN i + 1
    ELSE 0

ParseFail(msg) == [ok |-> FALSE, val |-> <<>>, next |-> 0, err |-> <<msg>>]

ParseOk(x, n) == [ok |-> TRUE, val |-> x, next |-> n, err |-> <<>>]

\* FnArg::parse at i: `pat : type` is FnArg::Captured (the pattern a binding
\* identifier, Pat::Ident, or a literal, Pat::Lit); a type alone is
\* FnArg::Ignored.  The argument keeps the tokens it prints back (ToTokens).
FnArgParse(s, i) ==
    IF /\ i + 1 <= Len(s)
       /\ s[i].kind \in {"Ident", "Literal"}
       /\ IsPunct(s[i + 1], ":")
       /\ TypeEnd(s, i + 2) # 0
    THEN ParseOk([variant |-> "Captured",
                  pat |-> IF s[i].kind = "Ident" THEN "Ident" ELSE "Lit",
                  first |-> s[i],
                  tokens |-> SubSeq(s, i, TypeEnd(s, i + 2) - 1)],
                 TypeEnd(s, i + 2))
    ELSE IF TypeEnd(s, i) # 0
    THEN ParseOk([variant |-> "Ignored",
                  pat |-> "",
                  first |-> s[i],
                  tokens |-> SubSeq(s, i, TypeEnd(s, i) - 1)],
                 TypeEnd(s, i))
    ELSE ParseFail("expected argument")

RECURSIVE ParamsFrom(_, _, _)

\* content.parse_terminated(FnArg::parse) with the cursor at i and the
\* arguments acc parsed so far: the stream must end after a value or after
\* a comma.
ParamsFrom(s, i, acc) ==
    IF i > Len(s)
    THEN ParseOk(acc, i)
    ELSE LET arg == FnArgParse(s, i)
         IN  IF ~arg.ok
             THEN arg
             ELSE IF arg.next > Len(s)
             THEN ParseOk(Append(acc, arg.val), arg.next)
             ELSE IF IsPunct(s[arg.next], ",")
             THEN ParamsFrom(s, arg.next + 1, Append(acc, arg.val))
             ELSE ParseFail("expected comma")

RECURSIVE IdentsFrom(_, _, _)

\* content.parse_terminated(Ident::parse)
IdentsFrom(s, i, acc) ==
    IF i > Len(s)
    THEN ParseOk(acc, i)
    ELSE IF ~PeekIdent(s, i)
    THEN ParseFail("expected identifier")
    ELSE IF i + 1 > Len(s)
    THEN ParseOk(Append(acc, s[i]), i + 1)
    ELSE IF IsPunct(s[i + 1], ",")
    THEN IdentsFrom(s, i + 2, Append(acc, s[i]))
    ELSE ParseFail("expected comma")

\* ------------------------------------------------------------------------
\* Item, Eval, WithContext, Closure, Captures
\* ------------------------------------------------------------------------

\* WithContext::parse at i: an identifier, then `=>`
WithContextParse(s, i) ==
    IF PeekIdent(s, i) /\ PeekFatArrow(s, i + 1)
    THEN ParseOk([ident |-> s[i]], i + 3)
    ELSE ParseFail("expected identifier and fat arrow")

\* Eval::parse: the context when an identifier and `=>` are peeked, and
\* every remaining token as the script.
EvalParse(s) ==
    LET context == IF PeekIdent(s, 1) /\ PeekFatArrow(s, 2)
                   THEN WithContextParse(s, 1)
                   ELSE ParseOk(<<>>, 1)
    IN  IF ~context.ok
        THEN context
        ELSE ParseOk([context |-> IF context.next = 1 THEN None ELSE Some(context.val),
                      script |-> SubSeq(s, context.next, Len(s))],
                     Len(s) + 1)

\* Captures::parse at i: a bracketed list of identifiers
CapturesParse(s, i) ==
    IF ~PeekGroup(s, i, "Bracket")
    THEN ParseFail("expected square brackets")
    ELSE LET inputs == IdentsFrom(s[i].stream, 1, <<>>)
         IN  IF inputs.ok THEN ParseOk([inputs |-> inputs.val], i + 1) ELSE inputs

\* Closure::parse from the braces on: with the cursor at b past `=>`, the
\* script is the contents of a braced group, or every remaining token.  next
\* is where the cursor is left.
ClosureScript(s, captures, params, output, o, b) ==
    ParseOk([captures |-> IF captures.next = 1 THEN None ELSE Some(captures.val),
             params |-> params.val,
             output |-> IF output.next = o THEN None ELSE Some(output.val),
             brace_token |-> IF PeekGroup(s, b, "Brace") THEN Some("Brace") ELSE None,
             script |-> IF PeekGroup(s, b, "Brace")
                        THEN s[b].stream
                        ELSE SubSeq(s, b, Len(s))],
            IF PeekGroup(s, b, "Brace") THEN b + 1 ELSE Len(s) + 1)

\* Closure::parse from `=>` on: the parameters and the return type are
\* parsed (the cursor was at o past the parameters), `=>` is required next.
ClosureFatArrow(s, captures, params, output, o) ==
    IF ~params.ok THEN params
    ELSE IF ~output.ok THEN output
    ELSE IF ~PeekFatArrow(s, output.next) THEN ParseFail("expected fat arrow")
    ELSE ClosureScript(s, captures, params, output, o, output.next + 2)

\* Closure::parse from the return type on: ReturnType::parse with the cursor
\* at o is `->` and a type, or nothing.
ClosureOutput(s, captures, params, o) ==
    ClosureFatArrow(s, captures, params,
                    IF PeekRArrow(s, o)
                    THEN (IF TypeEnd(s, o + 2) # 0
                          THEN ParseOk(SubSeq(s, o, TypeEnd(s, o + 2) - 1),
                                       TypeEnd(s, o + 2))
                          ELSE ParseFail("expected type"))
                    ELSE ParseOk(<<>>, o),
                    o)

\* Closure::parse from the parameters on: a parenthesized list of FnArg at
\* the cursor the captures left.
ClosureParams(s, captures) ==
    IF ~captures.ok
    THEN captures
    ELSE ClosureOutput(s, captures,
                       IF PeekGroup(s, captures.next, "Parenthesis")
                       THEN ParamsFrom(s[captures.next].stream, 1, <<>>)
                       ELSE ParseFail("expected parentheses"),
                       captures.next + 1)

\* Closure::parse, from the start of s: the captures when a bracket is peeked.
ClosureParse(s) ==
    ClosureParams(s, IF PeekGroup(s, 1, "Bracket")
                     THEN CapturesParse(s, 1)
                     ELSE ParseOk(<<>>, 1))

\* input.parse().map(Item::Closure), input.parse().map(Item::Eval)
ItemOf(variant, parsed) ==
    IF parsed.ok
    THEN ParseOk([variant |-> variant, node |-> parsed.val], parsed.next)
    ELSE parsed

\* Item::parse, were Eval tried first: Eval takes any input.
ItemParseEvalFirst(s) == ItemOf("Eval", EvalParse(s))

\* Item::parse: Closure when the parse of a Closure on a fork of the cursor
\* succeeds, and then the Closure is parsed from the cursor itself; Eval
\* otherwise.
ItemParse(s) ==
    IF ClosureParse(s).ok
    THEN ItemOf("Closure", ClosureParse(s))
    ELSE ItemOf("Eval", EvalParse(s))

\* syn::parse2, were the tokens left after the Item let through.
Parse2AllowsRest(s) == ItemParse(s)

\* The end of syn::parse2: an error when tokens are left after the parse.
CheckEof(s, parsed) ==
    IF parsed.ok /\ parsed.next <= Len(s)
    THEN ParseFail("unexpected token")
    ELSE parsed

\* syn::parse2::<Item>(input)
Parse2(s) == CheckEof(s, ItemParse(s))

\* ------------------------------------------------------------------------
\* TokenStream::to_string, quote! and format!
\* ------------------------------------------------------------------------

Open(d) == CASE d = "Parenthesis" -> "(" [] d = "Bracket" -> "[" [] d = "Brace" -> "{"

Close(d) == CASE d = "Parenthesis" -> ")" [] d = "Bracket" -> "]" [] d = "Brace" -> "}"

RECURSIVE to_string_from(_, _, _)

\* Display of the tokens i.. of s: a space before every token but the first
\* and the one after a Joint punctuation; a group prints its delimiters
\* around its contents, with spaces.
to_string_from(s, i, joint) ==
    IF i > Len(s)
    THEN <<>>
    ELSE LET t == s[i]
             sep == IF i # 1 /\ ~joint THEN <<" ">> ELSE <<>>
             text == IF t.kind = "Group"
                     THEN (IF t.stream = <<>>
                           THEN <<Open(t.delim), " ", Close(t.delim)>>
                           ELSE (<<Open(t.delim), " ">> \o to_string_from(t.stream, 1, FALSE))
                                \o <<" ", Close(t.delim)>>)
                     ELSE t.sym
         IN  (sep \o text)
             \o to_string_from(s, i + 1, t.kind = "Punct" /\ t.spacing = "Joint")

to_string(s) == to_string_from(s, 1, FALSE)

\* A String interpolated by quote!: a string literal token.
StringLiteral(str) == Literal((<<"\"">> \o str) \o <<"\"">>)

RECURSIVE Join(_, _)

\* [String]::join(sep)
Join(strs, sep) ==
    IF strs = <<>>
    THEN <<>>
    ELSE IF Len(strs) = 1
    THEN strs[1]
    ELSE (strs[1] \o <<sep>>) \o Join(Tail(strs), sep)

RECURSIVE ParamNamesOfAll(_)

\* ParamNames, were every argument named by its first token.
ParamNamesOfAll(params) ==
    IF params = <<>>
    THEN <<>>
    ELSE <<params[1].first.sym>> \o ParamNamesOfAll(Tail(params))

RECURSIVE ParamNames(_)

\* The flat_map over params: the name of a Captured argument whose pattern
\* is Pat::Ident; any other argument is warned about and left out.
ParamNames(params) ==
    IF params = <<>>
    THEN <<>>
    ELSE (IF params[1].variant = "Captured" /\ params[1].pat = "Ident"
          THEN <<params[1].first.sym>>
          ELSE <<>>)
         \o ParamNames(Tail(params))

RECURSIVE ParamTokens(_)

\* #(#params),* : the arguments, a comma between them.
ParamTokens(params) ==
    IF params = <<>>
    THEN <<>>
    ELSE IF Len(params) = 1
    THEN params[1].tokens
    ELSE (params[1].tokens \o <<Punct(<<",">>, "Alone")>>) \o ParamTokens(Tail(params))

\* quote! { qjs::eval(#script) }
QjsEval(script) ==
    <<Ident(<<"qjs">>), Punct(<<":">>, "Joint"), Punct(<<":">>, "Alone"),
      Ident(<<"eval">>), Group("Parenthesis", <<StringLiteral(script)>>)>>

\* The Eval arm of js, were the context left out of the call.
EvalTokensWithoutContext(eval) == QjsEval(to_string(eval.script))

\* The Eval arm of js
EvalTokens(eval) ==
    LET script == to_string(eval.script)
    IN  IF eval.context = None
        THEN QjsEval(script)
        ELSE <<eval.context[1].ident, Punct(<<".">>, "Alone"),
               Ident(<<"eval">>), Group("Parenthesis", <<StringLiteral(script)>>)>>

\* The Closure arm of js
ClosureTokens(closure) ==
    LET script == ((<<"function(">> \o Join(ParamNames(closure.params), ", "))
                   \o <<") { ">> \o to_string(closure.script)) \o <<" }">>
    IN  (((<<Punct(<<"|">>, "Alone")>> \o ParamTokens(closure.params))
          \o <<Punct(<<"|">>, "Alone")>>)
         \o (IF closure.output = None THEN <<>> ELSE closure.output[1]))
        \o <<Group("Brace", QjsEval(script))>>

\* The match of js on the parsed Item; `?` returns the error of the parse.
MatchItem(parsed) ==
    IF ~parsed.ok
    THEN [ok |-> FALSE, val |-> <<>>, err |-> parsed.err]
    ELSE IF parsed.val.variant = "Eval"
    THEN Ok(EvalTokens(parsed.val.node))
    ELSE Ok(ClosureTokens(parsed.val.node))

\* js(input)
js(s) == MatchItem(Parse2(s))

\* ------------------------------------------------------------------------
\* Inputs of interpolate: every stream of at most MaxTokens token trees over
\* an identifier, a literal, `#` alone, `#` joint and groups in ( ) and [ ].
\* ------------------------------------------------------------------------

InterpLeaves ==
    {Ident(<<"a">>), Literal(<<"1">>), Punct(<<"#">>, "Alone"), Punct(<<"#">>, "Joint")}

InterpDelims == {"Parenthesis", "Bracket"}

\* The streams of exactly n token trees, for every n up to MaxTokens.
StreamsOfSize[n \in 0..MaxTokens] ==
    IF n = 0
    THEN {<<>>}
    ELSE {<<t>> \o r : t \in InterpLeaves, r \in StreamsOfSize[n - 1]}
         \cup UNION {{<<Group(d, in)>> \o r : d \in InterpDelims,
                                              in \in StreamsOfSize[k],
                                              r \in StreamsOfSize[n - 1 - k]}
                     : k \in 0..(n - 1)}

\* s is a stream of exactly n token trees: empty, or a first token tree (a
\* leaf, or a group around a smaller stream) and the rest.
IsInputOfSize(s, n) ==
    \/ n = 0 /\ s = <<>>
    \/ n > 0 /\ \E t \in InterpLeaves, r \in StreamsOfSize[n - 1] : s = <<t>> \o r
    \/ n > 0 /\ \E k \in 0..(n - 1), d \in InterpDelims :
                    \E in \in StreamsOfSize[k], r \in StreamsOfSize[n - 1 - k] :
                        s = <<Group(d, in)>> \o r

\* The capture list a call starts with: empty, or one entry of an earlier call.
PriorVars == {<<>>, <<VariableIdent(Ident(<<"p">>))>>}

\* ------------------------------------------------------------------------
\* The specification of interpolate: one call on any input, any prior list
\* ------------------------------------------------------------------------

NoResult == [ok |-> FALSE, val |-> <<>>, err |-> None]

Init ==
    /\ \E n \in 0..MaxTokens : IsInputOfSize(input, n)
    /\ vars \in PriorVars
    /\ pc = "ready"
    /\ item = None
    /\ ret = NoResult

Interpolate ==
    /\ pc = "ready"
    /\ LET r == interpolate(input, vars)
       IN  /\ ret' = [ok |-> r.ok, val |-> r.val, err |-> r.err]
           /\ vars' = r.vars
    /\ pc' = "returned"
    /\ UNCHANGED <<input, item>>

Next == Interpolate

Spec == Init /\ [][Next]_v

\* ------------------------------------------------------------------------
\* Inputs of js: an optional leading identifier, an optional bracketed list,
\* an optional parenthesized list, an optional return type, an optional
\* `=>` and a body, each absent, well-formed or malformed.
\* ------------------------------------------------------------------------

FatArrowTokens == <<Punct(<<"=">>, "Joint"), Punct(<<">">>, "Alone")>>

RArrowTokens == <<Punct(<<"-">>, "Joint"), Punct(<<">">>, "Alone")>>

Comma == Punct(<<",">>, "Alone")

Colon == Punct(<<":">>, "Alone")

JsLeading == {<<>>, <<Ident(<<"a">>)>>}

JsCaptures ==
    {<<>>,
     <<Group("Bracket", <<Ident(<<"n">>)>>)>>,
     <<Group("Bracket", <<Literal(<<"1">>)>>)>>}

\* `n: a` (a binding), `1: a` (a literal pattern), `a` (a type alone)
ParamForms ==
    {<<Ident(<<"n">>), Colon, Ident(<<"a">>)>>,
     <<Literal(<<"1">>), Colon, Ident(<<"a">>)>>,
     <<Ident(<<"a">>)>>}

\* The lists of exactly k parameters, a comma between them.
ParamLists[k \in 0..MaxParams] ==
    IF k = 0
    THEN {<<>>}
    ELSE IF k = 1
    THEN ParamForms
    ELSE {(p \o <<Comma>>) \o l : p \in ParamForms, l \in ParamLists[k - 1]}

JsParams ==
    {<<>>,
     <<Group("Parenthesis", <<Ident(<<"n">>), Colon, Ident(<<"a">>), Comma>>)>>,
     <<Group("Parenthesis", <<Literal(<<"1">>)>>)>>}
    \cup {<<Group("Parenthesis", l)>> : l \in UNION {ParamLists[k] : k \in 0..MaxParams}}

JsReturn == {<<>>, RArrowTokens \o <<Ident(<<"a">>)>>, RArrowTokens}

JsArrow == {<<>>, FatArrowTokens}

JsBodyTokens ==
    {Ident(<<"n">>), Punct(<<"#">>, "Alone"),
     Group("Brace", <<>>), Group("Brace", <<Ident(<<"n">>)>>)}

\* The bodies of exactly k token trees.
JsBodies[k \in 0..MaxScript] ==
    IF k = 0
    THEN {<<>>}
    ELSE {<<t>> \o b : t \in JsBodyTokens, b \in JsBodies[k - 1]}

\* ------------------------------------------------------------------------
\* The specification of js: one call on any input
\* ------------------------------------------------------------------------

InitJs ==
    /\ \E l \in JsLeading, c \in JsCaptures, p \in JsParams :
           \E r \in JsReturn, f \in JsArrow, k \in 0..MaxScript :
               \E b \in JsBodies[k] :
                   input = ((((l \o c) \o p) \o r) \o f) \o b
    /\ vars = <<>>
    /\ pc = "ready"
    /\ item = None
    /\ ret = NoResult

\* The Item the call parsed, when it parsed one
ParsedItem(parsed) == IF parsed.ok THEN Some(parsed.val) ELSE None

\* A call of js on the input
Js ==
    /\ pc = "ready"
    /\ item' = ParsedItem(ItemParse(input))
    /\ ret' = js(input)
    /\ pc' = "returned"
    /\ UNCHANGED <<input, vars>>

NextJs == Js

SpecJs == InitJs /\ [][NextJs]_v

\* ------------------------------------------------------------------------
\* Notions the properties of interpolate are stated with
\* ------------------------------------------------------------------------

\* The step in which interpolate is called and returns.
Called == pc = "ready" /\ pc' = "returned"

Prefix(s, k) == SubSeq(s, 1, k)

\* A token a marker may splice: a bare identifier or a parenthesized group.
IsTarget(t) ==
    t.kind = "Ident" \/ (t.kind = "Group" /\ t.delim = "Parenthesis")

\* The capture-list entry of a splice target.
TargetOf(t) ==
    IF t.kind = "Ident" THEN VariableIdent(t) ELSE VariableExpr(t.stream)

RECURSIVE SpliceTargetsFrom(_, _)

\* The splice occurrences of s from position k on, left to right and outer
\* to inner: a marker immediately followed by a target is a splice; any
\* other group is searched.
SpliceTargetsFrom(s, k) ==
    IF k > Len(s)
    THEN <<>>
    ELSE IF IsMarker(s[k]) /\ k < Len(s) /\ IsTarget(s[k + 1])
    THEN <<TargetOf(s[k + 1])>> \o SpliceTargetsFrom(s, k + 2)
    ELSE IF s[k].kind = "Group"
    THEN SpliceTargetsFrom(s[k].stream, 1) \o SpliceTargetsFrom(s, k + 1)
    ELSE SpliceTargetsFrom(s, k + 1)

SpliceTargets(s) == SpliceTargetsFrom(s, 1)

RECURSIVE PlaceholdersFrom(_, _)

\* The names var<N> of the placeholders of s, in order, at every depth.
PlaceholdersFrom(s, k) ==
    IF k > Len(s)
    THEN <<>>
    ELSE IF s[k].kind = "Group"
    THEN PlaceholdersFrom(s[k].stream, 1) \o PlaceholdersFrom(s, k + 1)
    ELSE IF s[k].kind = "Ident" /\ s[k].sym[1] = "var"
    THEN <<s[k].sym>> \o PlaceholdersFrom(s, k + 1)
    ELSE PlaceholdersFrom(s, k + 1)

Placeholders(s) == PlaceholdersFrom(s, 1)

\* var<from>, var<from + 1>, ..., count of them
VarNames(from, count) == [i \in 1..count |-> <<"var", Decimal(from + i - 1)>>]

\* The tokens `__scope . var<n>`
ScopeVar(n) ==
    << [kind |-> "Ident", sym |-> <<"__scope">>, spacing |-> "", delim |-> "", stream |-> <<>>],
       [kind |-> "Punct", sym |-> <<".">>, spacing |-> "Alone", delim |-> "", stream |-> <<>>],
       [kind |-> "Ident", sym |-> <<"var", Decimal(n)>>, spacing |-> "", delim |-> "", stream |-> <<>>] >>

RECURSIVE HasMarker(_)

\* s holds a standalone `#` at some depth.
HasMarker(s) ==
    \E k \in 1..Len(s) :
        IsMarker(s[k]) \/ (s[k].kind = "Group" /\ HasMarker(s[k].stream))

RECURSIVE HasMalformedSplice(_)

\* s holds, at some depth outside the splice targets, a marker immediately
\* followed by a parenthesized group whose contents are no expression.
HasMalformedSplice(s) ==
    \E k \in 1..Len(s) :
        \/ /\ k > 1
           /\ IsMarker(s[k - 1])
           /\ s[k].kind = "Group"
           /\ s[k].delim = "Parenthesis"
           /\ ~ExprOk(s[k].stream)
        \/ /\ s[k].kind = "Group"
           /\ (k = 1 \/ ~IsMarker(s[k - 1]))
           /\ HasMalformedSplice(s[k].stream)

RECURSIVE ParenContents(_)

\* The contents of the parenthesized groups of s, at every depth.
ParenContents(s) ==
    UNION {IF s[k].kind = "Group"
           THEN (IF s[k].delim = "Parenthesis" THEN {s[k].stream} ELSE {})
                \cup ParenContents(s[k].stream)
           ELSE {}
           : k \in 1..Len(s)}

\* ------------------------------------------------------------------------
\* Properties of interpolate
\* ------------------------------------------------------------------------

\* C4: a call that starts from an empty capture list over a script with K
\* splice occurrences (a standalone `#` immediately followed by a bare
\* identifier or a parenthesized group) emits the placeholders var0 ..
\* var(K-1) in left-to-right, outer-to-inner order and leaves the capture
\* list with exactly the K splice targets, in that order.
C4_InterpolationIndexing ==
    [][(Called /\ vars = <<>> /\ ret'.ok)
         => LET targets == SpliceTargets(input)
            IN  /\ Placeholders(ret'.val) = VarNames(0, Len(targets))
                /\ vars' = targets]_v

\* C5: the armed state lasts for exactly one following token, so a token that
\* is not immediately preceded by its own marker is handled unarmed: such an
\* identifier is emitted as it is and adds no capture-list entry, and such a
\* parenthesized group is emitted as a group around its interpolated
\* contents and adds no entry of its own.
C5_ArmedForOneToken ==
    [][Called
         => \A k \in 1..Len(input) :
                LET before == interpolate(Prefix(input, k - 1), vars)
                    after == interpolate(Prefix(input, k), vars)
                    inner == interpolate(input[k].stream, before.vars)
                IN  (/\ IsTarget(input[k])
                     /\ (k = 1 \/ ~IsMarker(input[k - 1]))
                     /\ before.ok)
                      => IF input[k].kind = "Ident"
                         THEN /\ after.ok
                              /\ after.val = Append(before.val, input[k])
                              /\ after.vars = before.vars
                         ELSE /\ after.ok = inner.ok
                              /\ after.vars = inner.vars
                              /\ after.ok => after.val
                                   = Append(before.val,
                                            [input[k] EXCEPT !.stream = inner.val])]_v

\* A token that is no marker and no splice target: a literal, another
\* punctuation token, a bracketed or braced group.
IsNonTarget(t) == ~IsMarker(t) /\ ~IsTarget(t)

\* C6: a standalone `#` followed by a token that is neither a bare identifier
\* nor a parenthesized group is emitted verbatim, immediately followed by
\* that token, and no capture is recorded.
C6_NonSpliceVerbatim ==
    [][Called
         => \A k \in 2..Len(input) :
                LET before == interpolate(Prefix(input, k - 2), vars)
                    after == interpolate(Prefix(input, k), vars)
                IN  (/\ IsMarker(input[k - 1])
                     /\ IsNonTarget(input[k])
                     /\ (k = 2 \/ ~IsMarker(input[k - 2]))
                     /\ before.ok)
                      => /\ after.ok
                         /\ after.val = before.val \o <<input[k - 1], input[k]>>
                         /\ after.vars = before.vars]_v

\* C7: when the input holds a splice marker followed by a parenthesized group
\* whose contents are no expression, at any depth, the call returns the parse
\* error of a parenthesized group of the input, unchanged, with no output,
\* and the capture list holds no entry of an expression that did not parse.
C7_MalformedSpliceIsError ==
    (pc = "returned" /\ HasMalformedSplice(input))
      => /\ ~ret.ok
         /\ ret.val = <<>>
         /\ \E s \in ParenContents(input) :
                ~ExprOk(s) /\ ret.err = <<[msg |-> "expected expression", tokens |-> s]>>
         /\ \A i \in 1..Len(vars) : vars[i].var = "Expr" => ExprOk(vars[i].tokens)

\* C7's case: the malformed splice is inside a bracketed group that ends the
\* input, and the error came out of the call.
C7_Witness ==
    /\ pc = "returned"
    /\ ~ret.ok
    /\ Len(input) >= 1
    /\ input[Len(input)].kind = "Group"
    /\ input[Len(input)].delim = "Bracket"
    /\ HasMalformedSplice(input[Len(input)].stream)

\* C8: the call keeps the entries the capture list held, numbers its
\* placeholders from the length the list had, consecutively; each splice is
\* numbered with the length of the list at its substitution and its target
\* is appended there; a call over input without a marker returns the input
\* and leaves the list as it was.
C8_AccumulatorContinuity ==
    [][Called
         => /\ Len(vars') >= Len(vars)
            /\ Prefix(vars', Len(vars)) = vars
            /\ ret'.ok => Placeholders(ret'.val)
                            = VarNames(Len(vars), Len(vars') - Len(vars))
            /\ \A k \in 2..Len(input) :
                   LET before == interpolate(Prefix(input, k - 2), vars)
                       after == interpolate(Prefix(input, k), vars)
                   IN  (/\ IsMarker(input[k - 1])
                        /\ IsTarget(input[k])
                        /\ input[k].kind = "Group" => ExprOk(input[k].stream)
                        /\ before.ok)
                         => /\ after.ok
                            /\ after.val = before.val \o ScopeVar(Len(before.vars))
                            /\ after.vars = Append(before.vars, TargetOf(input[k]))
            /\ ~HasMarker(input) => (ret'.ok /\ ret'.val = input /\ vars' = vars)]_v

\* C8's case: a call that started with one entry and recorded two more.
C8_Witness ==
    /\ pc = "returned"
    /\ ret.ok
    /\ Len(vars) = 3
    /\ vars[1] = [var |-> "Ident", tokens |-> <<Ident(<<"p">>)>>]
    /\ Placeholders(ret.val) = <<<<"var", "1">>, <<"var", "2">>>>
    /\ IsMarker(input[1]) /\ IsMarker(input[3])


\* ------------------------------------------------------------------------
\* Notions the properties of js are stated with
\* ------------------------------------------------------------------------

\* A bracketed, comma-separated list of identifiers.
IsCaptureList(t) ==
    t.kind = "Group" /\ t.delim = "Bracket" /\ IdentsFrom(t.stream, 1, <<>>).ok

\* A parenthesized, comma-separated list of parameters.
IsParamList(t) ==
    t.kind = "Group" /\ t.delim = "Parenthesis" /\ ParamsFrom(t.stream, 1, <<>>).ok

\* 1 when s begins with a capture list, else 0.
LeadingCaptures(s) == IF Len(s) >= 1 /\ IsCaptureList(s[1]) THEN 1 ELSE 0

\* The position of the `=>` of s when s begins with an optional capture
\* list, a parameter list, an optional `-> type` and `=>`; else 0.
ClosureHead(s) ==
    LET c == LeadingCaptures(s)
        r == IF PeekRArrow(s, c + 2) /\ TypeEnd(s, c + 4) # 0
             THEN TypeEnd(s, c + 4) - (c + 2)
             ELSE 0
    IN  IF Len(s) >= c + 1 /\ IsParamList(s[c + 1]) /\ PeekFatArrow(s, c + 2 + r)
        THEN c + 2 + r
        ELSE 0

\* The body of s is in braces and tokens follow the closing brace.
TokensAfterBracedBody(s) ==
    LET h == ClosureHead(s)
    IN  h # 0 /\ PeekGroup(s, h + 2, "Brace") /\ h + 2 < Len(s)

\* The body of the closure s: the contents of the braces, or all the tokens
\* after `=>`.
BodyOf(s) ==
    LET h == ClosureHead(s)
    IN  IF PeekGroup(s, h + 2, "Brace") THEN s[h + 2].stream ELSE SubSeq(s, h + 2, Len(s))

\* A parameter list without its trailing comma.
WithoutTrailingComma(s) ==
    IF s # <<>> /\ s[Len(s)] = Comma THEN SubSeq(s, 1, Len(s) - 1) ELSE s

RECURSIVE BindingNamesFrom(_, _, _)

\* The names of the parameters of the list s that are an identifier, a
\* colon and a type; start says that position i begins a parameter.
BindingNamesFrom(s, i, start) ==
    IF i > Len(s)
    THEN <<>>
    ELSE IF start /\ s[i].kind = "Ident" /\ i < Len(s) /\ s[i + 1] = Colon
    THEN <<s[i].sym>> \o BindingNamesFrom(s, i + 1, FALSE)
    ELSE BindingNamesFrom(s, i + 1, s[i] = Comma)

\* The call `<receiver> eval ( "<string>" )`
EvalCall(receiver, string) ==
    receiver \o <<Ident(<<"eval">>),
                  Group("Parenthesis", <<Literal((<<"\"">> \o string) \o <<"\"">>)>>)>>

QjsPath == <<Ident(<<"qjs">>), Punct(<<":">>, "Joint"), Punct(<<":">>, "Alone")>>

\* The closure literal js is to emit for the closure s.
ExpectedClosure(s) ==
    LET c == LeadingCaptures(s)
        h == ClosureHead(s)
        names == BindingNamesFrom(s[c + 1].stream, 1, TRUE)
        string == (((<<"function(">> \o Join(names, ", ")) \o <<") { ">>)
                   \o to_string(BodyOf(s))) \o <<" }">>
    IN  (((<<Punct(<<"|">>, "Alone")>> \o WithoutTrailingComma(s[c + 1].stream))
          \o <<Punct(<<"|">>, "Alone")>>)
         \o SubSeq(s, c + 2, h - 1))
        \o <<Group("Brace", EvalCall(QjsPath, string))>>

Returned == pc = "returned"

IsClosure == item # None /\ item[1].variant = "Closure"

IsEval == item # None /\ item[1].variant = "Eval"

\* ------------------------------------------------------------------------
\* Properties of js
\* ------------------------------------------------------------------------

\* C1, as it is stated: the input is classified as Closure exactly when it
\* begins with a parenthesized parameter list followed by `=>`, and as Eval
\* otherwise.
C1_ClosureIffParamsThenArrow ==
    Returned
      => (IsClosure <=> (/\ Len(input) >= 1
                         /\ IsParamList(input[1])
                         /\ PeekFatArrow(input, 2)))

\* C1, amended: the input is classified as Closure exactly when it begins
\* with an optional bracketed capture list, a parenthesized parameter list,
\* an optional return type `-> type` and then `=>`, which is when the parse
\* of a Closure on the fork succeeds; every other input is classified as Eval.
C1_Classification ==
    Returned
      => /\ IsClosure <=> ClosureHead(input) # 0
         /\ IsEval <=> ClosureHead(input) = 0

\* C1's case: a Closure that begins with a capture list and has a return type.
C1_Witness ==
    /\ Returned
    /\ IsClosure
    /\ item[1].node.captures # None
    /\ item[1].node.output # None

\* C2: for an input classified as Eval, when its first tokens are an
\* identifier and `=>` the context is that identifier, the script is the
\* remaining tokens and js emits <identifier>.eval("<script>"); otherwise
\* there is no context, the script is the whole input and js emits
\* qjs::eval("<script>").
C2_EvalContext ==
    (Returned /\ IsEval)
      => LET eval == item[1].node
         IN  IF PeekIdent(input, 1) /\ PeekFatArrow(input, 2)
             THEN /\ eval.context # None
                  /\ eval.context[1].ident = input[1]
                  /\ eval.script = SubSeq(input, 4, Len(input))
                  /\ ret.ok
                  /\ ret.val = EvalCall(<<input[1], Punct(<<".">>, "Alone")>>,
                                        to_string(SubSeq(input, 4, Len(input))))
             ELSE /\ eval.context = None
                  /\ eval.script = input
                  /\ ret.ok
                  /\ ret.val = EvalCall(QjsPath, to_string(input))

\* C2's case: an Eval with a context and a script of two tokens, and an Eval
\* without context is covered by the same formula.
C2_Witness ==
    /\ Returned
    /\ IsEval
    /\ item[1].node.context # None
    /\ Len(item[1].node.script) = 2
    /\ ret.ok

EvalArgument(out) ==
    LET last == out[Len(out)]
        call == IF last.delim = "Brace" THEN last.stream[Len(last.stream)] ELSE last
    IN  call.stream[1].sym

\* C9: when the script of the Eval or Closure holds a splice, the string js
\* passes to eval is made of the interpolated script, each splice replaced
\* by its placeholder.
C9_ScriptIsInterpolated ==
    (Returned /\ ret.ok /\ SpliceTargets(item[1].node.script) # <<>>)
      => LET script == to_string(interpolate(item[1].node.script, <<>>).val)
         IN  IF IsEval
             THEN EvalArgument(ret.val) = (<<"\"">> \o script) \o <<"\"">>
             ELSE \E pre \in {SubSeq(EvalArgument(ret.val), 1, n)
                              : n \in 1..Len(EvalArgument(ret.val))} :
                      EvalArgument(ret.val) = (pre \o script) \o <<" }", "\"">>

\* C10: js fails exactly on an input that begins as a Closure whose braced
\* body is followed by further tokens, and that input was classified as
\* Closure; every input that does not begin as a Closure succeeds as Eval;
\* and a Closure with an unbraced body has all the tokens after `=>` as its
\* script.
C10_OnlyFailure ==
    Returned
      => /\ ~ret.ok <=> TokensAfterBracedBody(input)
         /\ ~ret.ok => IsClosure
         /\ ClosureHead(input) = 0 => (ret.ok /\ IsEval)
         /\ (IsClosure /\ item[1].node.brace_token = None)
              => /\ item[1].node.script
                      = SubSeq(input, ClosureHead(input) + 2, Len(input))
                 /\ ret.ok

\* C10's case: the call failed on tokens after a braced body.
C10_Witness ==
    /\ Returned
    /\ ~ret.ok
    /\ ret.err = <<"unexpected token">>
    /\ IsClosure
    /\ item[1].node.brace_token # None

=============================================================================
